---- MODULE Spec2Model ----
(***************************************************************************)
(* A model of GPUQuantile's DDSketch engine: the dense ring-buffer bucket  *)
(* store (ddsketch/storage/contiguous.py), the logarithmic index mapping   *)
(* (ddsketch/mapping/logarithmic.py) and the sketch (ddsketch/core.py).    *)
(*                                                                         *)
(* Objects are records, methods are operators from the object's state (and *)
(* the call's arguments) to the object's state after the call.  Python's   *)
(* None is the empty tuple and a present value v is <<v>>.  Python's //    *)
(* and % on a positive divisor are \div and % of Integers.                 *)
(***************************************************************************)
EXTENDS Integers, Sequences, FiniteSets, TLC

None == <<>>

Some(v) == <<v>>

Val(o) == o[1]

Min2(a, b) == IF a < b THEN a ELSE b

Max2(a, b) == IF a > b THEN a ELSE b

(***************************************************************************)
(* ContiguousStorage                                                       *)
(***************************************************************************)

\* ContiguousStorage.__init__ (total_count and max_buckets are set by the
\* Storage base class).
NewStorage(M) ==
    [ counts      |-> [i \in 0..(M - 1) |-> 0],
      min_index   |-> None,
      max_index   |-> None,
      num_buckets |-> 0,
      head        |-> 0,
      offset      |-> 0,
      total_count |-> 0,
      max_buckets |-> M ]

\* len(self.counts)
LenCounts(s) == Cardinality(DOMAIN s.counts)

_get_position(s, bucket_index) ==
    IF s.min_index = None
    THEN 0
    ELSE LET offset == bucket_index - Val(s.min_index)
         IN  (s.head + offset + s.offset) % LenCounts(s)

get_count(s, bucket_index) ==
    IF \/ s.min_index = None
       \/ bucket_index < Val(s.min_index)
       \/ bucket_index > Val(s.max_index)
    THEN 0
    ELSE s.counts[_get_position(s, bucket_index)]

_center_data(s, new_min, new_max) ==
    LET center == (new_min + new_max) \div 2
        shift  == center - ((Val(s.min_index) + Val(s.max_index)) \div 2)
    IN  [s EXCEPT !.offset    = (s.offset + shift) % LenCounts(s),
                  !.min_index = Some(new_min),
                  !.max_index = Some(new_max),
                  !.head      = (s.head + shift) % LenCounts(s)]

\* The inner while loop of _collapse_to_fit: the first index above min_index
\* whose get_count is not 0, or max_index + 1.
RECURSIVE NextBucket(_, _)
NextBucket(s, next_bucket) ==
    IF next_bucket <= Val(s.max_index) /\ get_count(s, next_bucket) = 0
    THEN NextBucket(s, next_bucket + 1)
    ELSE next_bucket

\* A fold that moves the count but leaves num_buckets as it was
FoldMinUncounted(s, pn, pm) ==
    IF get_count(s, Val(s.min_index)) > 0
    THEN [s EXCEPT !.counts = [[@ EXCEPT ![pn] = @ + s.counts[pm]] EXCEPT ![pm] = 0]]
    ELSE s

\* Lines 133-136: min_index's count is folded into next_bucket's cell.  The
\* += reads both cells before it writes, so the sum is doubled when the two
\* positions are the same cell, which line 135 then zeroes.
FoldMin(s, pn, pm) ==
    IF get_count(s, Val(s.min_index)) > 0
    THEN [s EXCEPT !.counts      = [[@ EXCEPT ![pn] = @ + s.counts[pm]] EXCEPT ![pm] = 0],
                   !.num_buckets = @ - 1]
    ELSE s

\* Line 139
MoveMin(s, next_bucket) == [s EXCEPT !.min_index = Some(next_bucket)]

\* Line 140: head is computed with the new min_index in place
ReHead(s) == [s EXCEPT !.head = _get_position(s, Val(s.min_index))]

\* One pass of the body of the for loop of _collapse_to_fit, given the
\* next_bucket the while loop found (next_bucket <= max_index).
CollapseStep(s, next_bucket) ==
    ReHead(MoveMin(FoldMin(s, _get_position(s, next_bucket),
                              _get_position(s, Val(s.min_index))),
                   next_bucket))

\* for i in range(buckets_to_collapse): ... with its break.
RECURSIVE CollapseLoop(_, _)
CollapseFrom(s, next_bucket, remaining) ==
    IF next_bucket > Val(s.max_index)
    THEN s
    ELSE CollapseLoop(CollapseStep(s, next_bucket), remaining - 1)

CollapseLoop(s, remaining) ==
    IF remaining <= 0
    THEN s
    ELSE CollapseFrom(s, NextBucket(s, Val(s.min_index) + 1), remaining)

_collapse_to_fit(s, new_min, new_max) ==
    LET new_span            == new_max - new_min + 1
        buckets_to_collapse == new_span - LenCounts(s)
    IN  IF buckets_to_collapse <= 0
        THEN s
        ELSE CollapseLoop(s, buckets_to_collapse)

\* The for loop of collapse_smallest_buckets, from iteration i on; fp and sp
\* are first_pos and second_pos (None while not found).
RECURSIVE SmallestScan(_, _, _, _)
SmallestScan(s, i, fp, sp) ==
    IF i > Val(s.max_index) - Val(s.min_index)
    THEN [first_pos |-> fp, second_pos |-> sp]
    ELSE LET pos == (s.head + i) % LenCounts(s)
         IN  IF s.counts[pos] > 0
             THEN IF fp = s.head
                  THEN SmallestScan(s, i + 1, pos, sp)
                  ELSE [first_pos |-> fp, second_pos |-> Some(pos)]
             ELSE SmallestScan(s, i + 1, fp, sp)

\* Lines 235-241, with the two positions the loop found
MergeSmallest(s, first_pos, second_pos) ==
    [s EXCEPT !.counts      = [[@ EXCEPT ![second_pos] = @ + s.counts[first_pos]]
                                  EXCEPT ![first_pos] = 0],
              !.num_buckets = @ - 1,
              !.min_index   = Some(Val(@) + second_pos - first_pos),
              !.head        = second_pos]

CollapseFound(s, found) ==
    IF found.second_pos = None
    THEN s
    ELSE MergeSmallest(s, found.first_pos, Val(found.second_pos))

collapse_smallest_buckets(s) ==
    IF s.num_buckets < 2
    THEN s
    ELSE CollapseFound(s, SmallestScan(s, 0, s.head, None))

\* Lines 73-82 of add: the range is extended to hold bucket_index
ExtendRange(s, new_min, new_max) ==
    IF new_max - new_min + 1 > LenCounts(s)
    THEN _collapse_to_fit(_center_data(s, new_min, new_max), new_min, new_max)
    ELSE _center_data(s, new_min, new_max)

\* Lines 85-89 of add
AddAt(s, pos, count) ==
    [s EXCEPT !.counts      = [@ EXCEPT ![pos] = @ + count],
              !.num_buckets = IF s.counts[pos] = 0 THEN @ + 1 ELSE @]

AddCount(s, bucket_index, count) == AddAt(s, _get_position(s, bucket_index), count)

\* The else branch of add (lines 70-89): the store is not empty.
AddNonEmpty(s, bucket_index, count) ==
    IF bucket_index < Val(s.min_index) \/ bucket_index > Val(s.max_index)
    THEN AddCount(ExtendRange(s, Min2(Val(s.min_index), bucket_index),
                                 Max2(Val(s.max_index), bucket_index)),
                  bucket_index, count)
    ELSE AddCount(s, bucket_index, count)

\* Lines 62-68 of add: the first insertion
AddFirst(s, bucket_index, count) ==
    [s EXCEPT !.min_index   = Some(bucket_index),
              !.max_index   = Some(bucket_index),
              !.counts      = [@ EXCEPT ![0] = count],
              !.num_buckets = 1,
              !.head        = 0]

\* Lines 91-95 of add
CapAndCount(s, count) ==
    IF s.num_buckets > s.max_buckets
    THEN [collapse_smallest_buckets(s) EXCEPT !.total_count = @ + count]
    ELSE [s EXCEPT !.total_count = @ + count]

Storage_add(s, bucket_index, count) ==
    IF count <= 0
    THEN s
    ELSE IF s.min_index = None
         THEN CapAndCount(AddFirst(s, bucket_index, count), count)
         ELSE CapAndCount(AddNonEmpty(s, bucket_index, count), count)

\* The loop of remove that looks for the new minimum (lines 166-171), from
\* iteration i on.
RECURSIVE FindNewMin(_, _)
FindNewMin(s, i) ==
    IF i > Val(s.max_index) - Val(s.min_index)
    THEN s
    ELSE IF s.counts[(s.head + i) % LenCounts(s)] > 0
         THEN [s EXCEPT !.min_index = Some(Val(@) + i),
                        !.head      = (s.head + i) % LenCounts(s)]
         ELSE FindNewMin(s, i + 1)

\* The loop of remove that looks for the new maximum (lines 174-178), from
\* iteration i on.
RECURSIVE FindNewMax(_, _)
FindNewMax(s, i) ==
    IF i > Val(s.max_index) - Val(s.min_index)
    THEN s
    ELSE IF s.counts[(s.head + (Val(s.max_index) - Val(s.min_index) - i)) % LenCounts(s)] > 0
         THEN [s EXCEPT !.max_index = Some(Val(@) - i)]
         ELSE FindNewMax(s, i + 1)

\* Lines 160-178 of remove: the bucket at bucket_index has just become empty
\* and num_buckets has been decremented.
AfterEmptied(s, bucket_index) ==
    IF s.num_buckets = 0
    THEN [s EXCEPT !.min_index = None, !.max_index = None]
    ELSE IF bucket_index = Val(s.min_index)
         THEN FindNewMin(s, 0)
         ELSE IF bucket_index = Val(s.max_index)
              THEN FindNewMax(s, 0)
              ELSE s

\* Lines 154-160 of remove
RemoveAt(s, bucket_index, pos, count) ==
    IF s.counts[pos] > 0 /\ Max2(0, s.counts[pos] - count) = 0
    THEN AfterEmptied([s EXCEPT !.counts      = [@ EXCEPT ![pos] = 0],
                                !.total_count = Max2(0, @ - count),
                                !.num_buckets = @ - 1],
                      bucket_index)
    ELSE [s EXCEPT !.counts      = [@ EXCEPT ![pos] = Max2(0, @ - count)],
                   !.total_count = Max2(0, @ - count)]

Storage_remove(s, bucket_index, count) ==
    IF count <= 0 \/ s.min_index = None
    THEN s
    ELSE IF Val(s.min_index) <= bucket_index /\ bucket_index <= Val(s.max_index)
         THEN RemoveAt(s, bucket_index, _get_position(s, bucket_index), count)
         ELSE s

\* The for loop of ContiguousStorage.merge, from iteration i on.
RECURSIVE MergeLoop(_, _, _)
MergeLoop(s, other, i) ==
    IF i > Val(other.max_index) - Val(other.min_index)
    THEN s
    ELSE IF other.counts[(other.head + i) % LenCounts(other)] > 0
         THEN MergeLoop(Storage_add(s, Val(other.min_index) + i,
                                    other.counts[(other.head + i) % LenCounts(other)]),
                        other, i + 1)
         ELSE MergeLoop(s, other, i + 1)

Storage_merge(s, other) ==
    IF other.min_index = None
    THEN s
    ELSE MergeLoop(s, other, 0)

(***************************************************************************)
(* LogarithmicMapping.  The relative accuracy alpha is the rational        *)
(* alpha.n / alpha.d, so gamma = (1 + alpha) / (1 - alpha) is the rational *)
(* (alpha.d + alpha.n) / (alpha.d - alpha.n); logarithms are exact.        *)
(***************************************************************************)

\* A returned float: the rational n / d, or +infinity
Finite(n, d) == [inf |-> FALSE, n |-> n, d |-> d]

Infinity == [inf |-> TRUE, n |-> 1, d |-> 1]

RECURSIVE Pow(_, _)
Pow(b, e) == IF e <= 0 THEN 1 ELSE b * Pow(b, e - 1)

\* self.gamma, as numerator and denominator
Gamma(alpha) == [n |-> alpha.d + alpha.n, d |-> alpha.d - alpha.n]

\* A float argument: the integer value as the rational value / 1
Rational(value) == [n |-> value, d |-> 1]

\* ceil(log(x) / log(gamma)) of a rational x >= 1: the least k >= from with
\* gamma^k >= x.
RECURSIVE CeilLogFrom(_, _, _)
CeilLogFrom(alpha, x, from) ==
    IF Pow(Gamma(alpha).n, from) * x.d >= x.n * Pow(Gamma(alpha).d, from)
    THEN from
    ELSE CeilLogFrom(alpha, x, from + 1)

\* -ceil(log(x) / log(gamma)) of a rational x in (0, 1): the greatest
\* j >= from with gamma^(-j) >= x.
RECURSIVE FloorLogInverseFrom(_, _, _)
FloorLogInverseFrom(alpha, x, from) ==
    IF Pow(Gamma(alpha).d, from + 1) * x.d >= x.n * Pow(Gamma(alpha).n, from + 1)
    THEN FloorLogInverseFrom(alpha, x, from + 1)
    ELSE from

\* int(np.ceil(np.log(value) * self.multiplier)) at a rational x > 0
CeilLog(alpha, x) ==
    IF x.n >= x.d
    THEN CeilLogFrom(alpha, x, 0)
    ELSE 0 - FloorLogInverseFrom(alpha, x, 0)

\* A compute_bucket_index that rejects only the negative values and gives
\* zero the index 0
Logarithmic_compute_bucket_index_lax(alpha, x) ==
    IF x.n < 0
    THEN [raised |-> Some("ValueError"), index |-> None]
    ELSE IF x.n = 0
         THEN [raised |-> None, index |-> Some(0)]
         ELSE [raised |-> None, index |-> Some(CeilLog(alpha, x))]

\* LogarithmicMapping.compute_bucket_index at a rational x
Logarithmic_compute_bucket_index(alpha, x) ==
    IF x.n <= 0
    THEN [raised |-> Some("ValueError"), index |-> None]
    ELSE [raised |-> None, index |-> Some(CeilLog(alpha, x))]

\* LogarithmicMapping.compute_bucket_index at an integer value
compute_bucket_index(alpha, value) ==
    Logarithmic_compute_bucket_index(alpha, Rational(value))

\* np.power(self.gamma, index), as a rational
compute_value_from_index(alpha, index) ==
    IF index >= 0
    THEN Finite(Pow(Gamma(alpha).n, index), Pow(Gamma(alpha).d, index))
    ELSE Finite(Pow(Gamma(alpha).d, 0 - index), Pow(Gamma(alpha).n, 0 - index))

\* floor(log2(x)) of a rational x >= 1: the greatest e >= from with
\* 2^e <= x
RECURSIVE FloorLog2From(_, _)
FloorLog2From(x, from) ==
    IF Pow(2, from + 1) * x.d <= x.n
    THEN FloorLog2From(x, from + 1)
    ELSE from

\* -floor(log2(x)) of a rational x in (0, 1): the least j >= from with
\* 2^(-j) <= x
RECURSIVE CeilLog2InverseFrom(_, _)
CeilLog2InverseFrom(x, from) ==
    IF x.d <= x.n * Pow(2, from)
    THEN from
    ELSE CeilLog2InverseFrom(x, from + 1)

\* floor(log2(x)) of a rational x > 0: the exponent np.frexp gives, less 1
FloorLog2(x) ==
    IF x.n >= x.d
    THEN FloorLog2From(x, 0)
    ELSE 0 - CeilLog2InverseFrom(x, 1)

\* LinearInterpolationMapping._extract_exponent of a rational x > 0: the
\* exponent and the normalized fraction x / 2^exponent in [1, 2)
_extract_exponent(x) ==
    [exponent            |-> FloorLog2(x),
     normalized_fraction |-> [n |-> x.n * Pow(2, 0 - FloorLog2(x)),
                              d |-> x.d * Pow(2, FloorLog2(x))]]

\* self.log2_gamma = np.log2(self.gamma), for a gamma that is a power of 2:
\* the least j >= from with 2^j = gamma
RECURSIVE Log2GammaFrom(_, _)
Log2GammaFrom(alpha, from) ==
    IF Pow(2, from) * Gamma(alpha).d = Gamma(alpha).n
    THEN from
    ELSE Log2GammaFrom(alpha, from + 1)

\* ceil(n / d) for d > 0
CeilDiv(n, d) == (n + d - 1) \div d

\* An index computed from the normalized fraction alone, without the
\* exponent
LinearIndexFractionOnly(parts, log2_gamma) ==
    CeilDiv(parts.normalized_fraction.n - parts.normalized_fraction.d,
            parts.normalized_fraction.d * log2_gamma)

\* Lines 37-47 of linear_interpolation.py: log2_value = exponent +
\* (normalized_fraction - 1), index = ceil(log2_value / log2_gamma)
LinearIndex(parts, log2_gamma) ==
    CeilDiv(parts.exponent * parts.normalized_fraction.d
                + (parts.normalized_fraction.n - parts.normalized_fraction.d),
            parts.normalized_fraction.d * log2_gamma)

\* LinearInterpolationMapping.compute_bucket_index at a rational x
LinearInterpolation_compute_bucket_index(alpha, x) ==
    IF x.n <= 0
    THEN [raised |-> Some("ValueError"), index |-> None]
    ELSE [raised |-> None,
          index  |-> Some(LinearIndex(_extract_exponent(x), Log2GammaFrom(alpha, 1)))]

\* LinearInterpolationMapping.compute_bucket_index at an integer value
Linear_compute_bucket_index(alpha, value) ==
    LinearInterpolation_compute_bucket_index(alpha, Rational(value))

\* LinearInterpolationMapping.compute_value_from_index: np.power(self.gamma,
\* index)
Linear_compute_value_from_index(alpha, index) ==
    IF index >= 0
    THEN Finite(Pow(Gamma(alpha).n, index), Pow(Gamma(alpha).d, index))
    ELSE Finite(Pow(Gamma(alpha).d, 0 - index), Pow(Gamma(alpha).n, 0 - index))

(***************************************************************************)
(* DDSketch                                                                *)
(***************************************************************************)

\* DDSketch.__init__ with bucket_strategy FIXED.  mapping_type stands for
\* self.mapping, the object of the class that lines 64-69 choose.
NewSketch(relative_accuracy, mapping_type, max_buckets, cont_neg) ==
    [ relative_accuracy |-> relative_accuracy,
      mapping_type      |-> mapping_type,
      cont_neg          |-> cont_neg,
      count             |-> 0,
      zero_count        |-> 0,
      min_value         |-> None,
      max_value         |-> None,
      positive_store    |-> Some(NewStorage(max_buckets)),
      negative_store    |-> IF cont_neg THEN Some(NewStorage(max_buckets)) ELSE None ]

\* The mapping_type names the constructor accepts
MappingTypes == {"logarithmic", "lin_interpol", "cub_interpol"}

\* SparseStorage(strategy=bucket_strategy): a store that holds nothing; the
\* constructor is given no max_buckets
NewSparseStorage(strategy) ==
    [strategy |-> strategy, counts |-> <<>>, min_index |-> None,
     max_index |-> None, total_count |-> 0]

\* A sketch the constructor has given sparse stores
NewSparseSketch(relative_accuracy, mapping_type, bucket_strategy, cont_neg) ==
    [ relative_accuracy |-> relative_accuracy,
      mapping_type      |-> mapping_type,
      cont_neg          |-> cont_neg,
      count             |-> 0,
      zero_count        |-> 0,
      min_value         |-> None,
      max_value         |-> None,
      positive_store    |-> Some(NewSparseStorage(bucket_strategy)),
      negative_store    |-> IF cont_neg THEN Some(NewSparseStorage(bucket_strategy))
                                         ELSE None ]

\* DDSketch.__init__ with all its arguments: the error it raises, or the
\* sketch it constructs
DDSketch_init(relative_accuracy, mapping_type, max_buckets, bucket_strategy, cont_neg) ==
    IF ~(0 < relative_accuracy.n /\ relative_accuracy.n < relative_accuracy.d)
    THEN [raised |-> Some("ValueError"), self |-> None]
    ELSE IF mapping_type \notin MappingTypes
    THEN [raised |-> Some("ValueError"), self |-> None]
    ELSE IF bucket_strategy = "FIXED"
    THEN IF max_buckets <= 0
         THEN [raised |-> Some("ValueError"), self |-> None]
         ELSE [raised |-> None,
               self   |-> Some(NewSketch(relative_accuracy, mapping_type,
                                         max_buckets, cont_neg))]
    ELSE [raised |-> None,
          self   |-> Some(NewSparseSketch(relative_accuracy, mapping_type,
                                          bucket_strategy, cont_neg))]

\* self.mapping.compute_bucket_index(value)
Mapping_compute_bucket_index(sk, value) ==
    IF sk.mapping_type = "logarithmic"
    THEN compute_bucket_index(sk.relative_accuracy, value)
    ELSE Linear_compute_bucket_index(sk.relative_accuracy, value)

\* self.mapping.compute_value_from_index(index)
Mapping_compute_value_from_index(sk, index) ==
    IF sk.mapping_type = "logarithmic"
    THEN compute_value_from_index(sk.relative_accuracy, index)
    ELSE Linear_compute_value_from_index(sk.relative_accuracy, index)

Abs(v) == IF v < 0 THEN 0 - v ELSE v

\* Lines 100-108 of insert: min/max tracking
TrackMinMax(sk, value) ==
    IF sk.count = 0
    THEN [sk EXCEPT !.min_value = Some(value), !.max_value = Some(value)]
    ELSE [sk EXCEPT !.min_value = IF value < Val(@) THEN Some(value) ELSE @,
                    !.max_value = IF value > Val(@) THEN Some(value) ELSE @]

\* An insert of 0 that also counts it in bucket 0 of the positive store
InsertZeroBucketed(sk) ==
    [sk EXCEPT !.zero_count     = @ + 1,
               !.count          = @ + 1,
               !.positive_store = Some(Storage_add(Val(@), 0, 1))]

\* Lines 111-114 of insert
InsertZero(sk) == [sk EXCEPT !.zero_count = @ + 1, !.count = @ + 1]

\* Lines 117-128 of insert, for a value that is not 0
InsertAt(sk, value, bucket_index) ==
    IF value > 0
    THEN [sk EXCEPT !.positive_store = Some(Storage_add(Val(@), bucket_index, 1)),
                    !.count          = @ + 1]
    ELSE [sk EXCEPT !.negative_store = Some(Storage_add(Val(@), bucket_index, 1)),
                    !.count          = @ + 1]

\* An insert that tracks min_value and max_value before it rejects a negative
\* value
DDSketch_insert_tracking(sk, value) ==
    IF ~sk.cont_neg /\ value < 0
    THEN [self |-> TrackMinMax(sk, value), raised |-> Some("ValueError")]
    ELSE IF value = 0
         THEN [self |-> InsertZero(TrackMinMax(sk, value)), raised |-> None]
         ELSE [self   |-> InsertAt(TrackMinMax(sk, value), value,
                                   Val(Mapping_compute_bucket_index(sk,
                                                            Abs(value)).index)),
               raised |-> None]

\* DDSketch.insert: the sketch after the call and the exception raised, if any
DDSketch_insert(sk, value) ==
    IF ~sk.cont_neg /\ value < 0
    THEN [self |-> sk, raised |-> Some("ValueError")]
    ELSE IF value = 0
         THEN [self |-> InsertZero(TrackMinMax(sk, value)), raised |-> None]
         ELSE [self   |-> InsertAt(TrackMinMax(sk, value), value,
                                   Val(Mapping_compute_bucket_index(sk,
                                                            Abs(value)).index)),
               raised |-> None]

\* A remove that reports success to its caller
Storage_remove_reports(s, bucket_index, count) == TRUE

\* remove has no return statement: the value the caller gets is Python's None,
\* which is false in a condition.
Storage_remove_result(s, bucket_index, count) == FALSE

\* Lines 156-157 of delete
CountDeleted(sk, deleted) == IF deleted THEN [sk EXCEPT !.count = @ - 1] ELSE sk

\* Lines 148-149 of delete
DeletePositive(sk, bucket_idx) ==
    CountDeleted([sk EXCEPT !.positive_store = Some(Storage_remove(Val(@), bucket_idx, 1))],
                 Storage_remove_result(Val(sk.positive_store), bucket_idx, 1))

\* Lines 151-152 of delete
DeleteNegative(sk, bucket_idx) ==
    CountDeleted([sk EXCEPT !.negative_store = Some(Storage_remove(Val(@), bucket_idx, 1))],
                 Storage_remove_result(Val(sk.negative_store), bucket_idx, 1))

\* DDSketch.delete
DDSketch_delete(sk, value) ==
    IF sk.count = 0
    THEN [self |-> sk, raised |-> None]
    ELSE IF value = 0 /\ sk.zero_count > 0
         THEN [self   |-> CountDeleted([sk EXCEPT !.zero_count = @ - 1], TRUE),
               raised |-> None]
         ELSE IF value > 0
              THEN [self   |-> DeletePositive(sk,
                                  Val(Mapping_compute_bucket_index(sk, value).index)),
                    raised |-> None]
              ELSE IF value < 0 /\ sk.cont_neg
                   THEN [self   |-> DeleteNegative(sk,
                                       Val(Mapping_compute_bucket_index(sk,
                                                                0 - value).index)),
                         raised |-> None]
                   ELSE IF value < 0
                        THEN [self |-> sk, raised |-> Some("ValueError")]
                        ELSE [self |-> sk, raised |-> None]

\* A walk of the negative store that starts from the lowest index it is
\* given and goes up
RECURSIVE NegativeWalkUp(_, _, _, _, _)
NegativeWalkUp(store, idx, curr_count, rank_n, rank_d) ==
    IF idx < Val(store.min_index)
    THEN None
    ELSE IF (curr_count + get_count(store, Val(store.min_index) + Val(store.max_index) - idx))
                * rank_d > rank_n
         THEN Some(Val(store.min_index) + Val(store.max_index) - idx)
         ELSE NegativeWalkUp(store, idx - 1,
                             curr_count + get_count(store, Val(store.min_index)
                                                           + Val(store.max_index) - idx),
                             rank_n, rank_d)

\* The walk of the negative store (lines 183-187), from index idx down:
\* the index whose bucket makes the cumulative count exceed the rank
\* rank_n / rank_d, or None when the loop ends without returning.
RECURSIVE NegativeWalk(_, _, _, _, _)
NegativeWalk(store, idx, curr_count, rank_n, rank_d) ==
    IF idx < Val(store.min_index)
    THEN None
    ELSE IF (curr_count + get_count(store, idx)) * rank_d > rank_n
         THEN Some(idx)
         ELSE NegativeWalk(store, idx - 1, curr_count + get_count(store, idx), rank_n, rank_d)

\* The walk of the positive store (lines 196-200), from index idx up.
RECURSIVE PositiveWalk(_, _, _, _, _)
PositiveWalk(store, idx, curr_count, rank_n, rank_d) ==
    IF idx > Val(store.max_index)
    THEN None
    ELSE IF (curr_count + get_count(store, idx)) * rank_d > rank_n
         THEN Some(idx)
         ELSE PositiveWalk(store, idx + 1, curr_count + get_count(store, idx), rank_n, rank_d)

Negated(v) == Finite(0 - v.n, v.d)

\* Lines 194-202 of quantile: hit is where the walk of the positive store
\* returned, None when it did not.
PositiveResult(sk, hit) ==
    IF hit # None
    THEN Mapping_compute_value_from_index(sk, Val(hit))
    ELSE Infinity

PositiveHit(store, rank_n, rank_d) ==
    IF store.min_index # None
    THEN PositiveWalk(store, Val(store.min_index), 0, rank_n, rank_d)
    ELSE None

\* Lines 190-202 of quantile: the zero counter and the positive store, with
\* the rank rank_n / rank_d left after the negative store.
QuantileFromZero(sk, rank_n, rank_d) ==
    IF rank_n < sk.zero_count * rank_d
    THEN Finite(0, 1)
    ELSE PositiveResult(sk, PositiveHit(Val(sk.positive_store),
                                        rank_n - sk.zero_count * rank_d, rank_d))

NegativeHit(store, rank_n, rank_d) ==
    IF rank_n < store.total_count * rank_d /\ store.min_index # None
    THEN NegativeWalk(store, Val(store.max_index), 0, rank_n, rank_d)
    ELSE None

\* A negative branch that falls through without taking neg_count from the rank
NegativeResultKeepsRank(sk, hit, rank_n, rank_d) ==
    IF hit # None
    THEN Negated(Mapping_compute_value_from_index(sk, Val(hit)))
    ELSE QuantileFromZero(sk, rank_n, rank_d)

\* Lines 177-202 of quantile with negatives enabled: hit is where the walk of
\* the negative store returned, None when it did not (or was not made).
NegativeResult(sk, hit, rank_n, rank_d) ==
    IF hit # None
    THEN Negated(Mapping_compute_value_from_index(sk, Val(hit)))
    ELSE QuantileFromZero(sk, rank_n - Val(sk.negative_store).total_count * rank_d, rank_d)

\* Lines 175-202 of quantile, for the rank rank_n / rank_d
QuantileOfRank(sk, rank_n, rank_d) ==
    IF sk.cont_neg
    THEN NegativeResult(sk, NegativeHit(Val(sk.negative_store), rank_n, rank_d), rank_n, rank_d)
    ELSE QuantileFromZero(sk, rank_n, rank_d)

\* DDSketch.quantile for q = q.n / q.d: the value returned and the exception
\* raised, if any.  rank = q * (count - 1).
DDSketch_quantile(sk, q) ==
    IF sk.count = 0
    THEN [value |-> None, raised |-> Some("ValueError")]
    ELSE [value |-> Some(QuantileOfRank(sk, q.n * (sk.count - 1), q.d)), raised |-> None]

\* A merge that adds the zeros of its source before it compares the relative
\* accuracies
DDSketch_merge_late_check(self, other) ==
    IF self.relative_accuracy # other.relative_accuracy
    THEN [self   |-> [self EXCEPT !.zero_count = @ + other.zero_count],
          other  |-> other,
          raised |-> Some("ValueError")]
    ELSE [self   |-> [self EXCEPT !.zero_count = @ + other.zero_count],
          other  |-> other,
          raised |-> Some("AttributeError")]

\* A merge that takes the zeros out of its source
DDSketch_merge_draining(self, other) ==
    IF self.relative_accuracy # other.relative_accuracy
    THEN [self |-> self, other |-> other, raised |-> Some("ValueError")]
    ELSE [self   |-> [self EXCEPT !.zero_count = @ + other.zero_count],
          other  |-> [other EXCEPT !.zero_count = 0],
          raised |-> Some("AttributeError")]

\* DDSketch.merge: self and other after the call and the exception raised, if
\* any.  The class defines no _get_specific_storage_items (nor does a base
\* class: it has none), so evaluating other._get_specific_storage_items at
\* line 225 (other has a negative store) or at line 230 raises
\* AttributeError, after line 221 has run.  Nothing assigns to other.
DDSketch_merge(self, other) ==
    IF self.relative_accuracy # other.relative_accuracy
    THEN [self |-> self, other |-> other, raised |-> Some("ValueError")]
    ELSE LET zeroed == [self EXCEPT !.zero_count = @ + other.zero_count]
         IN  [self |-> zeroed, other |-> other, raised |-> Some("AttributeError")]

(***************************************************************************)
(* The state machines.  A behaviour is a bounded sequence of calls; last   *)
(* records the latest call (its name, its target object, its arguments and *)
(* the exception it raised) and prev the objects as they were before it.   *)
(***************************************************************************)

VARIABLES storage1, storage2, added, adds_only, sketch1, sketch2, sketch3, phase, seen, last, prev, ops,
          config, mapping, indexed

vars == <<storage1, storage2, added, adds_only, sketch1, sketch2, sketch3, phase, seen, last, prev, ops,
          config, mapping, indexed>>

\* Bounds of the model
MaxCap == 2

MaxIdx == 2

MaxCnt == 2

MaxStoreOps == 4

MaxVal == 2

MaxOps == 2

QDen == 4

MaxStream == 2

Caps == 1..MaxCap

Indices == (0 - MaxIdx)..MaxIdx

Counts == 0..MaxCnt

Values == (0 - MaxVal)..MaxVal

\* The relative accuracies 1/3 (gamma = 2) and 1/5 (gamma = 3/2)
Alphas == {[n |-> 1, d |-> 3], [n |-> 1, d |-> 5]}

\* The quantiles 0, 1/QDen, ..., 1
Quantiles == {[n |-> a, d |-> QDen] : a \in 0..QDen}

Call(op, target, k, c, raised) ==
    [op |-> op, target |-> target, k |-> k, c |-> c, raised |-> raised]

NoCall == Call("none", 0, 0, 0, None)

IdleStores ==
    /\ storage1 = NewStorage(1)
    /\ storage2 = NewStorage(1)
    /\ added = [k \in Indices |-> 0]
    /\ adds_only = TRUE

IdleSketches ==
    /\ sketch1 = NewSketch([n |-> 1, d |-> 3], "logarithmic", 1, TRUE)
    /\ sketch2 = NewSketch([n |-> 1, d |-> 3], "logarithmic", 1, TRUE)

\* The arguments a sketch was constructed with
Config(relative_accuracy, mapping_type, max_buckets, cont_neg) ==
    [relative_accuracy |-> relative_accuracy, mapping_type |-> mapping_type,
     max_buckets |-> max_buckets, cont_neg |-> cont_neg]

\* No mapping object is under test
IdleMapping ==
    /\ mapping = [scheme |-> "none", alpha |-> [n |-> 1, d |-> 3]]
    /\ indexed = <<>>

IdleReference ==
    /\ sketch3 = NewSketch([n |-> 1, d |-> 3], "logarithmic", 1, TRUE)
    /\ phase = "none"
    /\ seen = <<>>

(***************************************************************************)
(* SpecStore: two ContiguousStorage objects of the same cap; storage1 is   *)
(* added to, removed from and merged into, storage2 is added to.  added[k] *)
(* is the total count the add calls on storage1 gave index k, adds_only is *)
(* whether add is the only method storage1 has been called with.           *)
(***************************************************************************)

InitStore ==
    /\ config = <<>>
    /\ IdleMapping
    /\ \E M \in Caps :
          /\ storage1 = NewStorage(M)
          /\ storage2 = NewStorage(M)
    /\ added = [k \in Indices |-> 0]
    /\ adds_only = TRUE
    /\ IdleSketches
    /\ IdleReference
    /\ last = NoCall
    /\ prev = NewStorage(1)
    /\ ops = 0

\* Whether the indices from min_index to max_index of s span max_buckets
\* indices and k lies one below min_index or one above max_index
OutsideFullSpan(s, k) ==
    /\ s.min_index # None
    /\ Val(s.max_index) - Val(s.min_index) + 1 = s.max_buckets
    /\ k \in {Val(s.min_index) - 1, Val(s.max_index) + 1}

\* A storage1.add(k, c) that raises ValueError, and adds nothing, when the
\* store spans max_buckets indices and k lies just outside them
Add1Raising(k, c) ==
    /\ ops < MaxStoreOps
    /\ storage1' = IF OutsideFullSpan(storage1, k) /\ c > 0
                   THEN storage1
                   ELSE Storage_add(storage1, k, c)
    /\ added' = IF c > 0 THEN [added EXCEPT ![k] = @ + c] ELSE added
    /\ last' = Call("add", 1, k, c,
                    IF OutsideFullSpan(storage1, k) /\ c > 0
                    THEN Some("ValueError") ELSE None)
    /\ prev' = storage1
    /\ ops' = ops + 1
    /\ UNCHANGED <<storage2, adds_only, sketch1, sketch2, sketch3, phase, seen, config, mapping, indexed>>

\* storage1.add(k, c)
Add1(k, c) ==
    /\ ops < MaxStoreOps
    /\ storage1' = Storage_add(storage1, k, c)
    /\ added' = IF c > 0 THEN [added EXCEPT ![k] = @ + c] ELSE added
    /\ last' = Call("add", 1, k, c, None)
    /\ prev' = storage1
    /\ ops' = ops + 1
    /\ UNCHANGED <<storage2, adds_only, sketch1, sketch2, sketch3, phase, seen, config, mapping, indexed>>

\* storage2.add(k, c)
Add2(k, c) ==
    /\ ops < MaxStoreOps
    /\ storage2' = Storage_add(storage2, k, c)
    /\ last' = Call("add", 2, k, c, None)
    /\ prev' = storage1
    /\ ops' = ops + 1
    /\ UNCHANGED <<storage1, added, adds_only, sketch1, sketch2, sketch3, phase, seen, config, mapping, indexed>>

\* storage1.remove(k, c)
Remove1(k, c) ==
    /\ ops < MaxStoreOps
    /\ storage1' = Storage_remove(storage1, k, c)
    /\ adds_only' = FALSE
    /\ last' = Call("remove", 1, k, c, None)
    /\ prev' = storage1
    /\ ops' = ops + 1
    /\ UNCHANGED <<storage2, added, sketch1, sketch2, sketch3, phase, seen, config, mapping, indexed>>

\* storage1.merge(storage2)
Merge12 ==
    /\ ops < MaxStoreOps
    /\ storage1' = Storage_merge(storage1, storage2)
    /\ adds_only' = FALSE
    /\ last' = Call("merge", 1, 0, 0, None)
    /\ prev' = storage1
    /\ ops' = ops + 1
    /\ UNCHANGED <<storage2, added, sketch1, sketch2, sketch3, phase, seen, config, mapping, indexed>>

NextStore ==
    \/ \E k \in Indices, c \in Counts : Add1(k, c)
    \/ \E k \in Indices, c \in Counts : Add2(k, c)
    \/ \E k \in Indices, c \in Counts : Remove1(k, c)
    \/ Merge12

SpecStore == InitStore /\ [][NextStore]_vars

(***************************************************************************)
(* Spec: two DDSketch objects with the same max_buckets; each is inserted  *)
(* into, deleted from and merged with the other.                           *)
(***************************************************************************)

Sketch(i) == IF i = 1 THEN sketch1 ELSE sketch2

Init ==
    /\ \E M \in Caps, a1 \in Alphas, a2 \in Alphas, n1 \in BOOLEAN, n2 \in BOOLEAN :
          /\ sketch1 = NewSketch(a1, "logarithmic", M, n1)
          /\ sketch2 = NewSketch(a2, "logarithmic", M, n2)
          /\ config = <<Config(a1, "logarithmic", M, n1), Config(a2, "logarithmic", M, n2)>>
    /\ IdleMapping
    /\ IdleStores
    /\ IdleReference
    /\ last = NoCall
    /\ prev = <<sketch1, sketch2>>
    /\ ops = 0

\* The step of a call on sketch i that leaves it as after and raises raised
Called(i, after, call) ==
    /\ ops < MaxOps
    /\ sketch1' = IF i = 1 THEN after ELSE sketch1
    /\ sketch2' = IF i = 2 THEN after ELSE sketch2
    /\ last' = call
    /\ prev' = <<sketch1, sketch2>>
    /\ ops' = ops + 1
    /\ UNCHANGED <<storage1, storage2, added, adds_only, sketch3, phase, seen, config, mapping, indexed>>

\* sketch<i>.insert(v)
Insert(i, v) ==
    LET r == DDSketch_insert(Sketch(i), v)
    IN  Called(i, r.self, Call("insert", i, v, 0, r.raised))

\* sketch<i>.delete(v)
Delete(i, v) ==
    LET r == DDSketch_delete(Sketch(i), v)
    IN  Called(i, r.self, Call("delete", i, v, 0, r.raised))

\* sketch<i>.merge(sketch<j>)
Merge(i, j) ==
    LET r == DDSketch_merge(Sketch(i), Sketch(j))
    IN  /\ ops < MaxOps
        /\ sketch1' = IF i = 1 THEN r.self ELSE r.other
        /\ sketch2' = IF i = 2 THEN r.self ELSE r.other
        /\ last' = Call("merge", i, j, 0, r.raised)
        /\ prev' = <<sketch1, sketch2>>
        /\ ops' = ops + 1
        /\ UNCHANGED <<storage1, storage2, added, adds_only, sketch3, phase, seen, config, mapping, indexed>>

Next ==
    \/ \E i \in 1..2, v \in Values : Insert(i, v)
    \/ \E i \in 1..2, v \in Values : Delete(i, v)
    \/ Merge(1, 2)
    \/ Merge(2, 1)

Spec == Init /\ [][Next]_vars

(***************************************************************************)
(* SpecMerge: stream S1 goes into sketch1 and stream S2 into sketch2, both *)
(* go, S1 first, into sketch3; then sketch1.merge(sketch2).  The three     *)
(* sketches have the same configuration.  seen is S1 followed by S2.       *)
(***************************************************************************)

InitMerge ==
    /\ \E M \in Caps, a \in Alphas, n \in BOOLEAN :
          /\ sketch1 = NewSketch(a, "logarithmic", M, n)
          /\ sketch2 = NewSketch(a, "logarithmic", M, n)
          /\ sketch3 = NewSketch(a, "logarithmic", M, n)
          /\ config = <<Config(a, "logarithmic", M, n), Config(a, "logarithmic", M, n)>>
    /\ IdleMapping
    /\ phase = "S1"
    /\ seen = <<>>
    /\ IdleStores
    /\ last = NoCall
    /\ prev = <<sketch1, sketch2>>
    /\ ops = 0

\* sketch<i>.insert(v) and sketch3.insert(v), for a value the sketches accept
InsertStream(i, v) ==
    LET r  == DDSketch_insert(Sketch(i), v)
        r3 == DDSketch_insert(sketch3, v)
    IN  /\ ops < MaxStream
        /\ r.raised = None
        /\ sketch1' = IF i = 1 THEN r.self ELSE sketch1
        /\ sketch2' = IF i = 2 THEN r.self ELSE sketch2
        /\ sketch3' = r3.self
        /\ seen' = Append(seen, v)
        /\ last' = Call("insert", i, v, 0, None)
        /\ prev' = <<sketch1, sketch2>>
        /\ ops' = ops + 1
        /\ UNCHANGED <<storage1, storage2, added, adds_only, phase, config, mapping, indexed>>

\* S1: sketch1.insert(v) and sketch3.insert(v)
InsertS1(v) == phase = "S1" /\ InsertStream(1, v)

\* S1 is complete
StartS2 ==
    /\ phase = "S1"
    /\ phase' = "S2"
    /\ ops' = 0
    /\ UNCHANGED <<storage1, storage2, added, adds_only, sketch1, sketch2, sketch3, seen, last, prev, config, mapping, indexed>>

\* S2: sketch2.insert(v) and sketch3.insert(v)
InsertS2(v) == phase = "S2" /\ InsertStream(2, v)

\* sketch1.merge(sketch2)
MergeStreams ==
    LET r == DDSketch_merge(sketch1, sketch2)
    IN  /\ phase = "S2"
        /\ phase' = "merged"
        /\ sketch1' = r.self
        /\ sketch2' = r.other
        /\ last' = Call("merge", 1, 2, 0, r.raised)
        /\ prev' = <<sketch1, sketch2>>
        /\ UNCHANGED <<storage1, storage2, added, adds_only, sketch3, seen, ops, config, mapping, indexed>>

NextMerge ==
    \/ \E v \in Values : InsertS1(v)
    \/ StartS2
    \/ \E v \in Values : InsertS2(v)
    \/ MergeStreams

SpecMerge == InitMerge /\ [][NextMerge]_vars

(***************************************************************************)
(* SpecSchemes: the two sketches of Spec, constructed with one relative    *)
(* accuracy and each with a mapping_type of its own, under the calls of    *)
(* Spec.  The relative accuracies are those whose gamma is a power of 2    *)
(* (1/3: gamma = 2, 3/5: gamma = 4), for which log2(gamma) is an integer.  *)
(***************************************************************************)

Schemes == {"logarithmic", "lin_interpol"}

PowerOfTwoAlphas == {[n |-> 1, d |-> 3], [n |-> 3, d |-> 5]}

InitSchemes ==
    /\ \E M \in Caps, a \in PowerOfTwoAlphas, s1 \in Schemes, s2 \in Schemes, n \in BOOLEAN :
          /\ sketch1 = NewSketch(a, s1, M, n)
          /\ sketch2 = NewSketch(a, s2, M, n)
          /\ config = <<Config(a, s1, M, n), Config(a, s2, M, n)>>
    /\ IdleMapping
    /\ IdleStores
    /\ IdleReference
    /\ last = NoCall
    /\ prev = <<sketch1, sketch2>>
    /\ ops = 0

SpecSchemes == InitSchemes /\ [][Next]_vars

(***************************************************************************)
(* SpecMapping: one mapping object, of either class, whose                 *)
(* compute_bucket_index is called with integers; the index it returns is   *)
(* given to compute_value_from_index.  indexed holds the latest call and   *)
(* the one before it.                                                      *)
(***************************************************************************)

MaxX == 16

XDen == 4

\* The floats compute_bucket_index is called with: the multiples of 1 / XDen
\* from -MaxX / XDen to MaxX / XDen
Floats == {[n |-> i, d |-> XDen] : i \in (0 - MaxX)..MaxX}

\* The mapping objects: a LogarithmicMapping or a LinearInterpolationMapping
\* of a relative accuracy
Mappings ==
    {[scheme |-> "logarithmic", alpha |-> a] : a \in Alphas \cup PowerOfTwoAlphas}
        \cup {[scheme |-> "lin_interpol", alpha |-> a] : a \in PowerOfTwoAlphas}

\* mapping.compute_bucket_index(x)
IndexOf(m, x) ==
    IF m.scheme = "logarithmic"
    THEN Logarithmic_compute_bucket_index(m.alpha, x)
    ELSE LinearInterpolation_compute_bucket_index(m.alpha, x)

\* mapping.compute_value_from_index(index)
ValueOf(m, index) ==
    IF m.scheme = "logarithmic"
    THEN compute_value_from_index(m.alpha, index)
    ELSE Linear_compute_value_from_index(m.alpha, index)

\* The record of a call compute_bucket_index(x) that has given result, and of
\* compute_value_from_index of the index it returned
Indexed(m, x, result) ==
    [x      |-> x,
     raised |-> result.raised,
     index  |-> result.index,
     value  |-> IF result.index = None THEN None ELSE Some(ValueOf(m, Val(result.index)))]

InitMapping ==
    /\ mapping \in Mappings
    /\ indexed = <<>>
    /\ config = <<>>
    /\ IdleStores
    /\ IdleSketches
    /\ IdleReference
    /\ last = NoCall
    /\ prev = <<sketch1, sketch2>>
    /\ ops = 0

\* mapping.compute_bucket_index(x)
ComputeIndex(x) ==
    /\ indexed' = IF indexed = <<>>
                  THEN <<Indexed(mapping, x, IndexOf(mapping, x))>>
                  ELSE <<Indexed(mapping, x, IndexOf(mapping, x)), indexed[1]>>
    /\ UNCHANGED <<storage1, storage2, added, adds_only, sketch1, sketch2, sketch3, phase,
                   seen, last, prev, ops, config, mapping>>

NextMapping == \E x \in Floats : ComputeIndex(x)

SpecMapping == InitMapping /\ [][NextMapping]_vars

(***************************************************************************)
(* One store that is only added to, as in test_contiguous_storage_specific: *)
(* a ContiguousStorage is constructed and add is called MaxFill times.      *)
(***************************************************************************)

MaxFill == 3

InitFill == InitStore

Fill(k, c) == ops < MaxFill /\ Add1(k, c)

NextFill == \E k \in Indices, c \in Counts : Fill(k, c)

SpecFill == InitFill /\ [][NextFill]_vars

(***************************************************************************)
(* The constructor: DDSketch(relative_accuracy, mapping_type, max_buckets,  *)
(* bucket_strategy, cont_neg) is called with valid and invalid arguments.   *)
(* config is the arguments of the latest call, last its outcome, sketch1    *)
(* the sketch it constructed, if it constructed one.                        *)
(***************************************************************************)

\* The relative accuracies the constructor is called with: -1/3, 0, 1/3,
\* 2/3, 1 and 4/3
AnyAlphas == {[n |-> i, d |-> 3] : i \in (0 - 1)..4}

AnyMappingTypes == MappingTypes \cup {"unknown"}

AnyCaps == (0 - 1)..MaxCap

Strategies == {"FIXED", "COLLAPSE"}

\* The arguments of a constructor call
Arguments(relative_accuracy, mapping_type, max_buckets, bucket_strategy, cont_neg) ==
    [relative_accuracy |-> relative_accuracy, mapping_type |-> mapping_type,
     max_buckets |-> max_buckets, bucket_strategy |-> bucket_strategy,
     cont_neg |-> cont_neg]

InitConfig ==
    /\ config = <<>>
    /\ IdleMapping
    /\ IdleStores
    /\ IdleSketches
    /\ IdleReference
    /\ last = NoCall
    /\ prev = <<sketch1, sketch2>>
    /\ ops = 0

\* sketch1 = DDSketch(a, s, M, b, n)
Construct(a, s, M, b, n) ==
    /\ config' = <<Arguments(a, s, M, b, n)>>
    /\ last' = Call("init", 1, 0, 0, DDSketch_init(a, s, M, b, n).raised)
    /\ sketch1' = IF DDSketch_init(a, s, M, b, n).raised = None
                  THEN Val(DDSketch_init(a, s, M, b, n).self)
                  ELSE sketch1
    /\ UNCHANGED <<storage1, storage2, added, adds_only, sketch2, sketch3, phase, seen,
                   prev, ops, mapping, indexed>>

NextConfig ==
    \E a \in AnyAlphas, s \in AnyMappingTypes, M \in AnyCaps, b \in Strategies,
       n \in BOOLEAN : Construct(a, s, M, b, n)

SpecConfig == InitConfig /\ [][NextConfig]_vars

(***************************************************************************)
(* One store that is added to and removed from with positive counts, as in  *)
(* test_remove: MaxChurn calls of add and remove on storage1.               *)
(***************************************************************************)

MaxChurn == 3

\* The counts of the calls: add and remove return at once for count <= 0
ChurnCounts == {1, 2}

InitChurn == InitStore

ChurnAdd(k, c) == ops < MaxChurn /\ Add1(k, c)

ChurnRemove(k, c) == ops < MaxChurn /\ Remove1(k, c)

NextChurn ==
    \/ \E k \in Indices, c \in ChurnCounts : ChurnAdd(k, c)
    \/ \E k \in Indices, c \in ChurnCounts : ChurnRemove(k, c)

SpecChurn == InitChurn /\ [][NextChurn]_vars

(***************************************************************************)
(* The claims                                                              *)
(***************************************************************************)

RECURSIVE SumOver(_, _)
SumOver(f, S) ==
    IF S = {}
    THEN 0
    ELSE LET x == CHOOSE y \in S : TRUE
         IN  f[x] + SumOver(f, S \ {x})

\* The bucket indices that are present in store s: get_count is 0 outside
\* [min_index, max_index], which lies within the indices ever added.
Present(s) == {k \in Indices : get_count(s, k) > 0}

\* The sum of get_count(k) over the present bucket indices
PresentTotal(s) == SumOver([k \in Indices |-> get_count(s, k)], Present(s))

\* max - min + 1 of a set of indices, 0 for the empty set
Span(S) ==
    IF S = {}
    THEN 0
    ELSE (CHOOSE x \in S : \A y \in S : y <= x) - (CHOOSE x \in S : \A y \in S : x <= y) + 1

\* C1 (store conservation): after any sequence of add and remove calls on a
\* ContiguousStorage (merge is a sequence of add calls), total_count is the
\* sum of get_count(k) over the present bucket indices k.
C1_StoreConservation == storage1.total_count = PresentTotal(storage1)

\* C3: after add calls only, whose bucket indices all lie within a span of at
\* most max_buckets, get_count(k) is the total count added to k, for every
\* index k (0 for an index never added).
C3_GetCountIsAdded ==
    (adds_only /\ Span({k \in Indices : added[k] > 0}) <= storage1.max_buckets)
        => \A k \in Indices : get_count(storage1, k) = added[k]

\* C4 (store cap): when an add call has returned, the number of bucket
\* indices k with get_count(k) > 0 is at most max_buckets.
C4_StoreCap ==
    (last.op = "add" /\ last.target = 1)
        => Cardinality(Present(storage1)) <= storage1.max_buckets

\* C9: after storage1.merge(storage2), where the union of the present indices
\* of both spans at most max_buckets, get_count(k) of storage1 is its count
\* before the call plus storage2.get_count(k), for every k, and total_count
\* has grown by storage2.total_count.
C9_StorageMergeAdds ==
    (/\ last.op = "merge"
     /\ Span(Present(prev) \cup Present(storage2)) <= prev.max_buckets)
        => /\ \A k \in Indices :
                 get_count(storage1, k) = get_count(prev, k) + get_count(storage2, k)
           /\ storage1.total_count = prev.total_count + storage2.total_count

\* total_count of an optional store, 0 for a sketch that has none
StoreTotal(o) == IF o = None THEN 0 ELSE Val(o).total_count

CountConserved(sk) ==
    sk.count = StoreTotal(sk.positive_store) + StoreTotal(sk.negative_store) + sk.zero_count

\* C2 (sketch count conservation): after any sequence of insert, delete and
\* merge calls, count is positive_store.total_count +
\* negative_store.total_count + zero_count.
C2_SketchCountConservation == CountConserved(sketch1) /\ CountConserved(sketch2)

\* a <= b for two returned floats
QuantileLeq(a, b) ==
    \/ b.inf
    \/ ~a.inf /\ a.n * b.d <= b.n * a.d

\* The answers of a non-empty sketch, by q
Answers(sk) == [q \in Quantiles |-> Val(DDSketch_quantile(sk, q).value)]

MonotoneAnswers(answers) ==
    \A q1 \in Quantiles, q2 \in Quantiles :
        q1.n <= q2.n => QuantileLeq(answers[q1], answers[q2])

Monotone(sk) == MonotoneAnswers(Answers(sk))

\* C6 (quantile monotonicity): in every sketch state reached by insert,
\* delete and merge calls in which the sketch is not empty, quantile(q1) <=
\* quantile(q2) for all q1 <= q2 in [0, 1].
C6_QuantileMonotone ==
    /\ sketch1.count > 0 => Monotone(sketch1)
    /\ sketch2.count > 0 => Monotone(sketch2)

\* The latest call was sketch1.insert of a positive value whose bucket index
\* extended the range of the positive store beyond max_buckets (line 81 of
\* contiguous.py), so that _collapse_to_fit ran.
InsertCollapsed ==
    /\ last.op = "insert" /\ last.target = 1 /\ last.k > 0
    /\ Val(prev[1].positive_store).min_index # None
    /\ Max2(Val(Val(prev[1].positive_store).max_index),
            Val(compute_bucket_index(sketch1.relative_accuracy, last.k).index))
         - Min2(Val(Val(prev[1].positive_store).min_index),
                Val(compute_bucket_index(sketch1.relative_accuracy, last.k).index)) + 1
         > Val(prev[1].positive_store).max_buckets

\* C6 happens: a sketch whose positive store has just collapsed answers
\* quantile(0) and quantile(1) differently.
C6_Witness ==
    /\ InsertCollapsed
    /\ sketch1.count > 1
    /\ DDSketch_quantile(sketch1, [n |-> 0, d |-> QDen]).value
          # DDSketch_quantile(sketch1, [n |-> QDen, d |-> QDen]).value

\* C8: a merge of sketches of equal relative accuracy completes, and leaves
\* zero_count the sum of both zero counts and count the sum of both counts.
C8_MergeSumsCounts ==
    (/\ last.op = "merge"
     /\ prev[1].relative_accuracy = prev[2].relative_accuracy)
        => /\ last.raised = None
           /\ Sketch(last.target).zero_count = prev[1].zero_count + prev[2].zero_count
           /\ Sketch(last.target).count = prev[1].count + prev[2].count

\* C10 (merge leaves the source unchanged): after A.merge(B), whether it has
\* succeeded or failed, B (its stores, zero_count, count, min_value and
\* max_value) is as it was before the call.
C10_MergeKeepsSource == last.op = "merge" => Sketch(last.k) = prev[last.k]

\* C10 happens: a merge from a source that is not empty has ended, having
\* added the source's zeros to the destination.
C10_Witness ==
    /\ last.op = "merge"
    /\ Sketch(last.k).count > 0
    /\ Sketch(last.target).zero_count > prev[last.target].zero_count

\* The bucket indices of the values of a stream that satisfy keep
StreamIndices(alpha, stream, positive) ==
    {Val(compute_bucket_index(alpha, Abs(stream[i])).index) :
        i \in {j \in 1..Len(stream) : IF positive THEN stream[j] > 0 ELSE stream[j] < 0}}

\* Inserting the stream triggers no collapse: per store, the bucket indices
\* span at most max_buckets.
NoCollapse(sk, stream) ==
    /\ Span(StreamIndices(sk.relative_accuracy, stream, TRUE))
          <= Val(sk.positive_store).max_buckets
    /\ Span(StreamIndices(sk.relative_accuracy, stream, FALSE))
          <= Val(sk.positive_store).max_buckets

\* The element of 0-based rank r of the sorted stream
RankedElement(stream, r) ==
    CHOOSE x \in {stream[i] : i \in 1..Len(stream)} :
        /\ Cardinality({i \in 1..Len(stream) : stream[i] < x}) <= r
        /\ r < Cardinality({i \in 1..Len(stream) : stream[i] <= x})

\* The representative, with sign, of the bucket that holds x
Representative(alpha, x) ==
    IF x = 0
    THEN Finite(0, 1)
    ELSE IF x > 0
         THEN compute_value_from_index(alpha, Val(compute_bucket_index(alpha, x).index))
         ELSE Negated(compute_value_from_index(alpha,
                          Val(compute_bucket_index(alpha, 0 - x).index)))

\* |v - x| <= alpha * |x| for a returned float v
WithinAlpha(alpha, v, x) ==
    /\ ~v.inf
    /\ Abs(v.n - x * v.d) * alpha.d <= alpha.n * Abs(x) * v.d

\* C5 (quantile accuracy at bucket level): for a stream of inserts that
\* triggers no collapse and any q in [0, 1], quantile(q) is the
\* representative, with sign, of the bucket that holds the element of 0-based
\* rank floor(q * (N - 1)) of the sorted stream, and so is within alpha of
\* that element, relatively.
C5_QuantileAccuracy ==
    (seen # <<>> /\ NoCollapse(sketch3, seen))
        => \A q \in Quantiles :
              LET x == RankedElement(seen, (q.n * (Len(seen) - 1)) \div q.d)
                  v == DDSketch_quantile(sketch3, q).value
              IN  /\ v = Some(Representative(sketch3.relative_accuracy, x))
                  /\ WithinAlpha(sketch3.relative_accuracy, Val(v), x)

\* The bucket indices the values of the model map to
BucketIndices ==
    {Val(compute_bucket_index(a, v).index) : a \in Alphas, v \in 1..MaxVal}

SameCounts(o1, o2) ==
    IF o1 = None \/ o2 = None
    THEN o1 = o2
    ELSE \A k \in BucketIndices : get_count(Val(o1), k) = get_count(Val(o2), k)

\* C7 (merge equivalence): with S1 inserted into sketch1 and S2 into sketch2
\* (no collapse), sketch1.merge(sketch2) leaves sketch1 with the per-bucket
\* counts of both stores, the zero_count and the count of the sketch that
\* received S1 followed by S2.
C7_MergeEquivalence ==
    (phase = "merged" /\ NoCollapse(sketch3, seen))
        => /\ SameCounts(sketch1.positive_store, sketch3.positive_store)
           /\ SameCounts(sketch1.negative_store, sketch3.negative_store)
           /\ sketch1.zero_count = sketch3.zero_count
           /\ sketch1.count = sketch3.count

\* The count sketch sk records for value x: zero_count for 0, get_count of
\* x's bucket in the store of x's sign otherwise (0 without that store)
Recorded(sk, x) ==
    IF x = 0
    THEN sk.zero_count
    ELSE IF x > 0
         THEN get_count(Val(sk.positive_store),
                        Val(compute_bucket_index(sk.relative_accuracy, x).index))
         ELSE IF sk.cont_neg
              THEN get_count(Val(sk.negative_store),
                             Val(compute_bucket_index(sk.relative_accuracy, 0 - x).index))
              ELSE 0

\* C11: delete(x) on a sketch that records at least one value in x's bucket
\* takes one from that bucket's count and one from count.
C11_DeleteDecrements ==
    (last.op = "delete" /\ Recorded(prev[last.target], last.k) > 0)
        => /\ Recorded(Sketch(last.target), last.k)
                 = Recorded(prev[last.target], last.k) - 1
           /\ Sketch(last.target).count = prev[last.target].count - 1

\* C12: delete(x) when no count is recorded for x (its bucket is absent,
\* zero_count is 0 for x = 0, or the sketch is empty) leaves count as it was.
C12_DeleteAbsentKeepsCount ==
    (/\ last.op = "delete"
     /\ \/ Recorded(prev[last.target], last.k) = 0
        \/ prev[last.target].count = 0)
        => Sketch(last.target).count = prev[last.target].count

\* C12 happens: delete(x), x not 0, has returned on a sketch that is not
\* empty and records nothing for x.
C12_Witness ==
    /\ last.op = "delete" /\ last.raised = None /\ last.k # 0
    /\ prev[last.target].count > 0
    /\ Recorded(prev[last.target], last.k) = 0

\* C13 (zero isolation): insert(0) adds one to zero_count and one to count
\* and leaves the positive store and the negative store as they were.
C13_ZeroIsolation ==
    (last.op = "insert" /\ last.k = 0)
        => /\ last.raised = None
           /\ Sketch(last.target).zero_count = prev[last.target].zero_count + 1
           /\ Sketch(last.target).count = prev[last.target].count + 1
           /\ Sketch(last.target).positive_store = prev[last.target].positive_store
           /\ Sketch(last.target).negative_store = prev[last.target].negative_store

\* C13 happens: insert(0) has returned on a sketch whose positive store holds
\* a value.
C13_Witness ==
    /\ last.op = "insert" /\ last.k = 0
    /\ Val(prev[last.target].positive_store).total_count > 0

\* T_neg: total_count of the negative store, 0 when negatives are disabled
NegTotal(sk) == StoreTotal(sk.negative_store)

\* The rank q * (count - 1) lies in [T_neg, T_neg + zero_count)
RankAtZero(sk, q) ==
    /\ NegTotal(sk) * q.d <= q.n * (sk.count - 1)
    /\ q.n * (sk.count - 1) < (NegTotal(sk) + sk.zero_count) * q.d

\* C14: on a sketch that is not empty, quantile(q) is exactly 0 whenever the
\* rank q * (count - 1) is at least T_neg and below T_neg + zero_count.
C14_QuantileZero ==
    \A i \in 1..2 :
        Sketch(i).count > 0
            => \A q \in Quantiles :
                  RankAtZero(Sketch(i), q)
                      => DDSketch_quantile(Sketch(i), q).value = Some(Finite(0, 1))

\* C14 happens: sketch1 holds a negative value and a zero, and the rank of
\* quantile(1) falls on the zero.
C14_Witness ==
    /\ sketch1.count > 0
    /\ NegTotal(sketch1) > 0
    /\ sketch1.zero_count > 0
    /\ RankAtZero(sketch1, [n |-> QDen, d |-> QDen])

\* The bucket indices with a positive count in an optional store
PresentIn(o) ==
    IF o = None THEN {} ELSE {k \in BucketIndices : get_count(Val(o), k) > 0}

\* What quantile(0) is to return: minus the value of the highest present
\* bucket of the negative store, else 0 when zero_count > 0, else the value
\* of the lowest present bucket of the positive store; None when the sketch
\* holds nothing.
MinimumAnswer(sk) ==
    IF PresentIn(sk.negative_store) # {}
    THEN Some(Negated(compute_value_from_index(sk.relative_accuracy,
                 CHOOSE k \in PresentIn(sk.negative_store) :
                     \A j \in PresentIn(sk.negative_store) : j <= k)))
    ELSE IF sk.zero_count > 0
         THEN Some(Finite(0, 1))
         ELSE IF PresentIn(sk.positive_store) # {}
              THEN Some(compute_value_from_index(sk.relative_accuracy,
                       CHOOSE k \in PresentIn(sk.positive_store) :
                           \A j \in PresentIn(sk.positive_store) : k <= j))
              ELSE None

\* C15: quantile(0) on a sketch that is not empty (count > 0) is the value,
\* with its sign, of the bucket of the minimum: the highest present bucket of
\* the negative store, else 0 if zero_count > 0, else the lowest present
\* bucket of the positive store.
C15_QuantileZeroIsMinimum ==
    \A i \in 1..2 :
        Sketch(i).count > 0
            => DDSketch_quantile(Sketch(i), [n |-> 0, d |-> QDen]).value
                  = MinimumAnswer(Sketch(i))

\* C16: on a sketch that is not empty, quantile(q) never returns the
\* fallback +infinity, for any q in [0, 1].
C16_NoInfinity ==
    \A i \in 1..2 :
        Sketch(i).count > 0
            => \A q \in Quantiles : ~Val(DDSketch_quantile(Sketch(i), q).value).inf

\* Quantiles outside [0, 1]: -1/QDen and (QDen + 1)/QDen
OutOfRange == {[n |-> 0 - 1, d |-> QDen], [n |-> QDen + 1, d |-> QDen]}

\* C17: quantile(q) on a sketch that is not empty raises an error, and
\* returns no value, for q < 0 and for q > 1.
C17_QuantileRejectsOutOfRange ==
    \A i \in 1..2 :
        Sketch(i).count > 0
            => \A q \in OutOfRange :
                  /\ DDSketch_quantile(Sketch(i), q).raised # None
                  /\ DDSketch_quantile(Sketch(i), q).value = None

\* The sketch holds no value: zero_count is 0 and no bucket of either store
\* has a positive count
HoldsNothing(sk) ==
    /\ sk.zero_count = 0
    /\ PresentIn(sk.positive_store) = {}
    /\ PresentIn(sk.negative_store) = {}

\* C18: quantile(q) raises an error whenever the sketch holds no value
\* (nothing was inserted, or every inserted value has been deleted).
C18_QuantileRejectsEmpty ==
    \A i \in 1..2 :
        HoldsNothing(Sketch(i))
            => \A q \in Quantiles : DDSketch_quantile(Sketch(i), q).raised # None

\* C19: on a sketch with negatives disabled, insert(x) with x < 0 raises an
\* error and leaves the sketch (count, zero_count, min_value, max_value, the
\* positive store) as it was.
C19_NegativeRejected ==
    (last.op = "insert" /\ last.k < 0 /\ ~prev[last.target].cont_neg)
        => /\ last.raised # None
           /\ Sketch(last.target) = prev[last.target]

\* C19 happens: insert of a negative value has been rejected by a sketch that
\* holds a value.
C19_Witness ==
    /\ last.op = "insert" /\ last.k < 0 /\ last.raised # None
    /\ prev[last.target].count > 0

\* C20: a merge that raises leaves its destination (zero_count, count,
\* min_value, max_value and both stores) as it was before the call.
C20_FailedMergeKeepsDestination ==
    (last.op = "merge" /\ last.raised # None)
        => Sketch(last.target) = prev[last.target]

\* C21: merge(other) raises an error whenever the relative accuracies
\* differ, and has then modified nothing of self.
C21_MergeRejectsAccuracy ==
    (/\ last.op = "merge"
     /\ prev[last.target].relative_accuracy # prev[last.k].relative_accuracy)
        => /\ last.raised # None
           /\ Sketch(last.target) = prev[last.target]

\* C21 happens: a merge of sketches of different relative accuracies has
\* ended, from a source that holds a zero.
C21_Witness ==
    /\ last.op = "merge"
    /\ prev[last.target].relative_accuracy # prev[last.k].relative_accuracy
    /\ prev[last.k].zero_count > 0

\* C22: a merge from a source that holds negative values into a destination
\* constructed with negatives disabled raises the error of an incompatible
\* merge (ValueError, the caller error of line 218), and the destination
\* records no negative value.
C22_MergeRejectsNegatives ==
    (/\ last.op = "merge"
     /\ ~prev[last.target].cont_neg
     /\ StoreTotal(prev[last.k].negative_store) > 0)
        => /\ last.raised = Some("ValueError")
           /\ Sketch(last.target).negative_store = None

\* C23: merge(other) raises the error of an incompatible merge (ValueError)
\* when the two sketches have different mapping schemes, also when their
\* relative accuracies are equal.
C23_MergeRejectsScheme ==
    (last.op = "merge" /\ prev[1].mapping_type # prev[2].mapping_type)
        => last.raised = Some("ValueError")

\* C24: storage1.remove(k, c) of a bucket k that holds nothing, inside or
\* outside [min_index, max_index], changes nothing: counts, total_count,
\* num_buckets, min_index and max_index are as before the call, and no error
\* is raised.
C24_RemoveAbsentIsNoOp ==
    (last.op = "remove" /\ last.target = 1 /\ get_count(prev, last.k) = 0)
        => /\ last.raised = None
           /\ storage1.counts = prev.counts
           /\ storage1.total_count = prev.total_count
           /\ storage1.num_buckets = prev.num_buckets
           /\ storage1.min_index = prev.min_index
           /\ storage1.max_index = prev.max_index

\* The add of C25: storage1.add(k, c) with c > 0 has returned, where the
\* store spanned max_buckets indices and k lay one below min_index or one
\* above max_index.
AddOutsideFullSpan ==
    /\ last.op = "add" /\ last.target = 1 /\ last.c > 0
    /\ OutsideFullSpan(prev, last.k)

C26_AddCollapsesToFit ==
    (/\ last.op = "add" /\ last.target = 1 /\ last.c > 0
     /\ prev.min_index # None
     /\ Max2(Val(prev.max_index), last.k) - Min2(Val(prev.min_index), last.k) + 1
            > prev.max_buckets)
        => /\ storage1.min_index # None
           /\ Val(storage1.max_index) - Val(storage1.min_index) + 1
                  <= storage1.max_buckets
           /\ Val(storage1.min_index) <= last.k
           /\ last.k <= Val(storage1.max_index)
           /\ get_count(storage1, last.k) >= last.c

\* The cap of store o of a sketch, None when the sketch has no such store
CapOf(o) == IF o = None THEN None ELSE Some(Val(o).max_buckets)

\* C27: a sketch constructed with negatives enabled gives each of its two
\* stores a cap of max_buckets / 2; constructed with negatives disabled, it
\* gives its positive store a cap of max_buckets.
C27_StoreCapHalved ==
    \A i \in 1..2 :
        IF config[i].cont_neg
        THEN /\ CapOf(Sketch(i).positive_store) = Some(config[i].max_buckets \div 2)
             /\ CapOf(Sketch(i).negative_store) = Some(config[i].max_buckets \div 2)
        ELSE CapOf(Sketch(i).positive_store) = Some(config[i].max_buckets)

\* |v - x| <= alpha * x for a returned float v and a rational x > 0
RoundTripWithin(alpha, v, x) ==
    /\ ~v.inf
    /\ Abs(v.n * x.d - x.n * v.d) * alpha.d <= alpha.n * x.n * v.d

\* C28: for every x > 0 and every mapping scheme,
\* |compute_value_from_index(compute_bucket_index(x)) - x| / x <= alpha.
C28_RoundTripAccuracy ==
    (indexed # <<>> /\ indexed[1].x.n > 0)
        => RoundTripWithin(mapping.alpha, Val(indexed[1].value), indexed[1].x)

\* x <= y for rationals of positive denominators
Leq(x, y) == x.n * y.d <= y.n * x.d

\* C29: for the logarithmic and the linear-interpolation mapping and
\* 0 < x1 <= x2, compute_bucket_index(x1) <= compute_bucket_index(x2).
C29_IndexMonotone ==
    (/\ Len(indexed) = 2
     /\ indexed[1].x.n > 0
     /\ Leq(indexed[1].x, indexed[2].x))
        => Val(indexed[1].index) <= Val(indexed[2].index)

\* C29 happens: the linear-interpolation mapping has indexed a value below 1
\* and a value above 1, and has given the first a negative and the second a
\* positive index.
C29_Witness ==
    /\ mapping.scheme = "lin_interpol"
    /\ Len(indexed) = 2
    /\ indexed[1].x.n > 0
    /\ Leq(indexed[1].x, indexed[2].x)
    /\ Val(indexed[1].index) < 0
    /\ Val(indexed[2].index) > 0

\* C30: compute_bucket_index(x) raises an error for every x <= 0, under
\* every mapping scheme, and returns an index for every x > 0.
C30_IndexOfPositiveOnly ==
    \A i \in 1..Len(indexed) :
        IF indexed[i].x.n <= 0
        THEN indexed[i].raised # None /\ indexed[i].index = None
        ELSE indexed[i].raised = None /\ indexed[i].index # None

\* C30 happens: the logarithmic mapping has been called with zero, which
\* raised ValueError, and with a positive value, which gave an index.
C30_Witness ==
    /\ mapping.scheme = "logarithmic"
    /\ Len(indexed) = 2
    /\ indexed[1].x.n = 0
    /\ indexed[1].raised = Some("ValueError")
    /\ indexed[2].x.n > 0
    /\ indexed[2].index # None

\* C31: constructing a DDSketch raises a configuration error (ValueError)
\* when relative_accuracy is not strictly between 0 and 1, when the mapping
\* name is unknown, or when max_buckets is not positive, for every bucket
\* strategy.
C31_InvalidConfigRejected ==
    (/\ last.op = "init"
     /\ \/ config[1].relative_accuracy.n <= 0
        \/ config[1].relative_accuracy.n >= config[1].relative_accuracy.d
        \/ config[1].mapping_type \notin MappingTypes
        \/ config[1].max_buckets <= 0)
        => last.raised = Some("ValueError")

\* The sum of all the cells of the counts array of s
SumCells(s) == SumOver(s.counts, DOMAIN s.counts)

\* The number of nonzero cells of the counts array of s
NonZeroCells(s) == Cardinality({p \in DOMAIN s.counts : s.counts[p] > 0})

\* The collapse steps that _collapse_to_fit takes from s with remaining
\* passes of its loop left: for each, the store before and after it and the
\* bucket it folds into.
RECURSIVE StepsFrom(_, _)
StepsFrom(s, remaining) ==
    IF remaining <= 0 \/ NextBucket(s, Val(s.min_index) + 1) > Val(s.max_index)
    THEN <<>>
    ELSE <<[before |-> s,
            into   |-> NextBucket(s, Val(s.min_index) + 1),
            after  |-> CollapseStep(s, NextBucket(s, Val(s.min_index) + 1))]>>
         \o StepsFrom(CollapseStep(s, NextBucket(s, Val(s.min_index) + 1)), remaining - 1)

\* The collapse steps of s.add(k, c): those of _collapse_to_fit, if the add
\* calls it.
StepsOfAdd(s, k, c) ==
    IF c <= 0 \/ s.min_index = None
          \/ (Val(s.min_index) <= k /\ k <= Val(s.max_index))
    THEN <<>>
    ELSE StepsFrom(_center_data(s, Min2(Val(s.min_index), k), Max2(Val(s.max_index), k)),
                   Max2(Val(s.max_index), k) - Min2(Val(s.min_index), k) + 1 - LenCounts(s))

\* C32: each collapse step of the dense store leaves the sum of all bucket
\* counts as it was, decreases the number of present buckets by exactly one,
\* and advances min_index to the bucket that received the count.
C32_CollapseBookkeeping ==
    (last.op = "add" /\ last.target = 1)
        => \A i \in 1..Len(StepsOfAdd(prev, last.k, last.c)) :
              LET step == StepsOfAdd(prev, last.k, last.c)[i]
              IN  /\ SumCells(step.after) = SumCells(step.before)
                  /\ NonZeroCells(step.after) = NonZeroCells(step.before) - 1
                  /\ step.after.num_buckets = step.before.num_buckets - 1
                  /\ step.after.min_index = Some(step.into)
                  /\ Val(step.after.min_index) > Val(step.before.min_index)
                  /\ get_count(step.after, step.into)
                         = get_count(step.before, step.into)
                               + get_count(step.before, Val(step.before.min_index))

\* The add of C33: storage1.add(k, c) with c > 0 has returned, and had to
\* collapse: the range from the lower of min_index and k to the higher of
\* max_index and k is longer than the counts array.
AddCollapsed ==
    /\ last.op = "add" /\ last.target = 1 /\ last.c > 0
    /\ prev.min_index # None
    /\ Max2(Val(prev.max_index), last.k) - Min2(Val(prev.min_index), last.k) + 1
           > LenCounts(prev)

\* C33: when an add triggers collapse, every bucket whose index is greater
\* than the resulting min_index keeps exactly the count it had before the
\* add (the bucket added to has that count and the count added).
C33_CollapseKeepsUpperTail ==
    AddCollapsed
        => /\ storage1.min_index # None
           /\ \A j \in Indices :
                 j > Val(storage1.min_index)
                    => get_count(storage1, j)
                          = get_count(prev, j) + (IF j = last.k THEN last.c ELSE 0)

\* C34: whenever storage1 is empty, initially or after removes have emptied
\* it, add(k, c) with c > 0 sets min_index = max_index = k, and get_count(k)
\* then returns c.
C34_ReseatAfterEmpty ==
    (/\ last.op = "add" /\ last.target = 1 /\ last.c > 0
     /\ prev.min_index = None)
        => /\ storage1.min_index = Some(last.k)
           /\ storage1.max_index = Some(last.k)
           /\ get_count(storage1, last.k) = last.c

\* storage1.remove(k, c) has returned and has emptied bucket k, which was
\* the bucket at min_index or at max_index, while the store stays nonempty.
RemoveEmptiedEnd ==
    /\ last.op = "remove" /\ last.target = 1
    /\ prev.min_index # None
    /\ last.k \in {Val(prev.min_index), Val(prev.max_index)}
    /\ get_count(prev, last.k) > 0
    /\ get_count(prev, last.k) <= last.c
    /\ storage1.min_index # None

\* min_index and max_index of s name buckets whose count is positive (and so
\* the lowest and the highest: get_count is 0 outside them), and
\* min_index <= max_index
EndsArePresent(s) ==
    /\ Val(s.min_index) <= Val(s.max_index)
    /\ get_count(s, Val(s.min_index)) > 0
    /\ get_count(s, Val(s.max_index)) > 0

\* C35: after a remove that empties the bucket at min_index (or at
\* max_index) while other buckets remain present, min_index is the smallest
\* (max_index the largest) index whose count is positive; so in every
\* nonempty store min_index and max_index name present buckets and
\* min_index <= max_index.
C35_EndsNamePresentBuckets ==
    /\ RemoveEmptiedEnd => EndsArePresent(storage1)
    /\ storage1.min_index # None => EndsArePresent(storage1)

\* num_buckets of s is the number of nonzero cells of its counts array
CountsNonZero(s) == s.num_buckets = NonZeroCells(s)

\* num_buckets of s is within the cap, so that the check of add at lines
\* 91-93 does not call collapse_smallest_buckets
WithinCap(s) == s.num_buckets <= s.max_buckets

\* min_index of s is None exactly when its num_buckets is 0
NoneIffEmpty(s) == (s.min_index = None) <=> (s.num_buckets = 0)

\* C36: in every reachable state of a ContiguousStorage, num_buckets is the
\* number of nonzero entries of the counts array (hence num_buckets <=
\* max_buckets), and min_index is None exactly when num_buckets is 0.
C36_NumBucketsCountsCells ==
    \A s \in {storage1, storage2} :
        CountsNonZero(s) /\ WithinCap(s) /\ NoneIffEmpty(s)

\* C36 happens: after a remove, an add has returned whose collapse folded
\* the count of min_index into another bucket and decremented num_buckets.
C36_Witness ==
    /\ AddCollapsed
    /\ ~adds_only
    /\ Len(StepsOfAdd(prev, last.k, last.c)) > 0
    /\ StepsOfAdd(prev, last.k, last.c)[1].after.num_buckets
           < StepsOfAdd(prev, last.k, last.c)[1].before.num_buckets

====
